---- MODULE Spec2Model ----
(***************************************************************************)
(* A model of the interactive-fiction bot of Leva7/im-dreaming:            *)
(*   src/parser.py  Parser: markup sections -> state definitions           *)
(*   src/main.py    GameState (check / filter_replies / present) and       *)
(*                  GameStateManager (the handlers the conversation        *)
(*                  handler dispatches to).                                *)
(* Python strings are sequences of one-character strings, so that          *)
(* startswith, split, isdigit, int() and the regular expressions of the    *)
(* handlers are computed rather than assumed.  A Python dict is a TLA+     *)
(* function whose DOMAIN is the set of keys present.                       *)
(***************************************************************************)
EXTENDS Integers, Sequences, FiniteSets, TLC

VARIABLES
    script,        \* the sections of the game file handed to Parser.parse
    load_err,      \* the exception that ended GameStateManager(...), or "none"
    game_states,   \* GameStateManager.game_states: state_idx -> GameState
    lock_dests,    \* GameStateManager.on_correct_input / on_wrong_input
    conv,          \* ConversationHandler.conversations: user -> state
    user_data,     \* dispatcher user_data: user -> dict
    last,          \* the update handled last: who, what, which handler, error
    out,           \* the messages emitted while handling it
    probe,         \* the arguments and the result of a call of GameState.check
    asleep         \* the callback the dispatcher thread is inside time.sleep of

vars == <<script, load_err, game_states, lock_dests, conv, user_data, last, out, probe,
          asleep>>

-----------------------------------------------------------------------------
(* Python str operations on sequences of characters                        *)

\* Python's None (for a missing condition, last_earn, allow_input = False)
None == <<>>

Digits == {"0", "1", "2", "3", "4", "5", "6", "7", "8", "9"}

DigitSeq == <<"0", "1", "2", "3", "4", "5", "6", "7", "8", "9">>

LowerCase == <<"a", "b", "c", "d", "e", "f", "g", "h", "i", "j", "k", "l", "m",
               "n", "o", "p", "q", "r", "s", "t", "u", "v", "w", "x", "y", "z">>

UpperCase == <<"A", "B", "C", "D", "E", "F", "G", "H", "I", "J", "K", "L", "M",
               "N", "O", "P", "Q", "R", "S", "T", "U", "V", "W", "X", "Y", "Z">>

Letters == {LowerCase[i] : i \in DOMAIN LowerCase} \cup {UpperCase[i] : i \in DOMAIN UpperCase}

Whitespace == {" ", "\n", "\t"}

\* the regular expression class \w
WordChars == Letters \cup Digits \cup {"_"}

\* str.upper() on one character
Upper(c) ==
    IF \E i \in DOMAIN LowerCase : LowerCase[i] = c
    THEN UpperCase[CHOOSE i \in DOMAIN LowerCase : LowerCase[i] = c]
    ELSE c

\* s.startswith(p)
StartsWith(s, p) == Len(s) >= Len(p) /\ SubSeq(s, 1, Len(p)) = p

\* sub in s
Contains(s, sub) ==
    \E i \in 1..(Len(s) - Len(sub) + 1) : SubSeq(s, i, i + Len(sub) - 1) = sub

\* s.isdigit()
IsDigit(s) == Len(s) > 0 /\ \A i \in DOMAIN s : s[i] \in Digits

\* s.isspace()
IsSpace(s) == Len(s) > 0 /\ \A i \in DOMAIN s : s[i] \in Whitespace

DigitVal(c) == (CHOOSE i \in DOMAIN DigitSeq : DigitSeq[i] = c) - 1

\* int(s) for a string of digits
RECURSIVE ToInt(_)
ToInt(s) ==
    IF Len(s) = 0 THEN 0
    ELSE 10 * ToInt(SubSeq(s, 1, Len(s) - 1)) + DigitVal(s[Len(s)])

\* s.split(): the words between runs of whitespace
RECURSIVE SplitWords(_, _, _)
SplitWords(s, cur, acc) ==
    IF Len(s) = 0 THEN (IF Len(cur) = 0 THEN acc ELSE Append(acc, cur))
    ELSE IF Head(s) \in Whitespace
         THEN SplitWords(Tail(s), <<>>, IF Len(cur) = 0 THEN acc ELSE Append(acc, cur))
         ELSE SplitWords(Tail(s), Append(cur, Head(s)), acc)

Split(s) == SplitWords(s, <<>>, <<>>)

\* s.split(sep): every piece between occurrences of sep, empty ones too
RECURSIVE SplitOnAcc(_, _, _, _)
SplitOnAcc(s, sep, cur, acc) ==
    IF Len(s) = 0 THEN Append(acc, cur)
    ELSE IF StartsWith(s, sep)
         THEN SplitOnAcc(SubSeq(s, Len(sep) + 1, Len(s)), sep, <<>>, Append(acc, cur))
         ELSE SplitOnAcc(Tail(s), sep, Append(cur, Head(s)), acc)

SplitOn(s, sep) == SplitOnAcc(s, sep, <<>>, <<>>)

\* s.lstrip()
RECURSIVE LStrip(_)
LStrip(s) ==
    IF Len(s) > 0 /\ Head(s) \in Whitespace THEN LStrip(Tail(s)) ELSE s

\* s.replace('**', '*')
RECURSIVE ReplaceStars(_)
ReplaceStars(s) ==
    IF Len(s) = 0 THEN <<>>
    ELSE IF StartsWith(s, <<"*", "*">>)
         THEN <<"*">> \o ReplaceStars(SubSeq(s, 3, Len(s)))
         ELSE <<Head(s)>> \o ReplaceStars(Tail(s))

-----------------------------------------------------------------------------
(* The pieces of a game file.  A section is what one element of            *)
(* game_md.split('\n----\n') holds: the header after its four-character    *)
(* prefix, the spans if_ptn.split finds in the message body, each with     *)
(* the parts comp_ptn.split finds in it, what the last paragraph is, and   *)
(* the reply lines reply_ptn finds in it.                                  *)

ModTag(arg) == [tag |-> "mod", a |-> arg, b |-> <<>>, c |-> <<>>]
InputTag(kind, correct, wrong) == [tag |-> "input", a |-> kind, b |-> correct, c |-> wrong]
MbTag(wait) == [tag |-> "mb", a |-> wait, b |-> <<>>, c |-> <<>>]
MoneyTag(arg) == [tag |-> "money", a |-> arg, b |-> <<>>, c |-> <<>>]
TextPart(text) == [tag |-> "text", a |-> text, b |-> <<>>, c |-> <<>>]

Span(cond, parts) == [cond |-> cond, parts |-> parts]
ReplyLine(cond, text, dest) == [cond |-> cond, text |-> text, dest |-> dest]

ChoiceSection(header, body, replies) ==
    [header |-> header, body |-> body, last_par |-> "replies", replies |-> replies]
LethalSection(header, body) ==
    [header |-> header, body |-> body, last_par |-> "wasted", replies |-> <<>>]
VictorySection(header, body) ==
    [header |-> header, body |-> body, last_par |-> "other", replies |-> <<>>]

-----------------------------------------------------------------------------
(* Parser (src/parser.py)                                                  *)

Component(type, content, wait) == [type |-> type, content |-> content, wait |-> wait]

\* parse_mod.fullmatch: '<mod ([^/]+)/>'
ModMatches(part) == Len(part.a) > 0 /\ \A i \in DOMAIN part.a : part.a[i] # "/"

\* parse_input.fullmatch: '<input \w+ correct=([0-9]+) wrong=([0-9]+)/>'
InputMatches(part) ==
    /\ Len(part.a) > 0
    /\ \A i \in DOMAIN part.a : part.a[i] \in WordChars
    /\ IsDigit(part.b)
    /\ IsDigit(part.c)

\* parse_mb.fullmatch: '<mb(?: wait=([0-9]+))?/>'
MbMatches(part) == part.a = None \/ IsDigit(part.a)

\* parse_money.fullmatch: '<money ([^/]+)/>'
MoneyMatches(part) == Len(part.a) > 0 /\ \A i \in DOMAIN part.a : part.a[i] # "/"

\* One turn of the loop of break_to_components; acc holds the components
\* so far, self.state_input, and the exception raised, if any.
ParsePart(acc, part) ==
    IF acc.err # "none" THEN acc
    ELSE CASE part.tag = "mod" ->
                IF ModMatches(part)
                THEN [acc EXCEPT !.components = Append(@, Component("modifier", part.a, 0))]
                ELSE [acc EXCEPT !.err = "AttributeError"]
           [] part.tag = "input" ->
                IF InputMatches(part)
                THEN [acc EXCEPT !.state_input = <<ToInt(part.b), ToInt(part.c)>>]
                ELSE [acc EXCEPT !.err = "AttributeError"]
           [] part.tag = "mb" ->
                IF MbMatches(part)
                THEN [acc EXCEPT !.components =
                        Append(@, Component("mbreak", <<>>,
                                            IF part.a = None THEN 0 ELSE ToInt(part.a)))]
                ELSE [acc EXCEPT !.err = "AttributeError"]
           [] part.tag = "money" ->
                IF MoneyMatches(part)
                THEN [acc EXCEPT !.components = Append(@, Component("money", part.a, 0))]
                ELSE [acc EXCEPT !.err = "AttributeError"]
           [] OTHER ->
                IF Len(part.a) = 0 \/ IsSpace(part.a) THEN acc
                ELSE [acc EXCEPT !.components =
                        Append(@, Component("message", LStrip(ReplaceStars(part.a)), 0))]

RECURSIVE ParseParts(_, _)
ParseParts(acc, parts) ==
    IF Len(parts) = 0 THEN acc ELSE ParseParts(ParsePart(acc, Head(parts)), Tail(parts))

\* Parser.break_to_components
break_to_components(parts, state_input) ==
    ParseParts([components |-> <<>>, state_input |-> state_input, err |-> "none"], parts)

\* Parser.break_to_blocks; acc holds the blocks so far, self.state_input
\* and the exception raised, if any.
RECURSIVE BlocksLoop(_, _)
BlocksLoop(acc, spans) ==
    IF Len(spans) = 0 \/ acc.err # "none" THEN acc
    ELSE LET r == break_to_components(Head(spans).parts, acc.state_input)
         IN  BlocksLoop([blocks |-> Append(acc.blocks,
                                           [condition |-> Head(spans).cond,
                                            content |-> r.components]),
                         state_input |-> r.state_input,
                         err |-> r.err],
                        Tail(spans))

break_to_blocks(spans, state_input) ==
    BlocksLoop([blocks |-> <<>>, state_input |-> state_input, err |-> "none"], spans)

\* Parser.parse_replies
parse_replies(lines) ==
    [i \in DOMAIN lines |->
        [condition |-> lines[i].cond,
         text |-> ReplaceStars(lines[i].text),
         dest_state |-> ToInt(lines[i].dest)]]

\* One turn of the loop of Parser.parse
ParseSection(acc, section) ==
    IF acc.err # "none" THEN acc
    ELSE IF ~IsDigit(section.header) THEN [acc EXCEPT !.err = "ValueError"]
    ELSE LET b == break_to_blocks(section.body, acc.state_input)
             state_obj ==
                 [state_idx |-> ToInt(section.header),
                  message_blocks |-> b.blocks,
                  replies |-> IF section.last_par = "replies"
                              THEN parse_replies(section.replies) ELSE None,
                  is_lethal |-> section.last_par = "wasted",
                  is_victory |-> section.last_par = "other",
                  allow_input |-> b.state_input]
         IN  IF b.err # "none"
             THEN [acc EXCEPT !.err = b.err, !.state_input = b.state_input]
             ELSE [states |-> Append(acc.states, state_obj),
                   state_input |-> None,
                   err |-> "none"]

RECURSIVE ParseLoop(_, _)
ParseLoop(acc, sections) ==
    IF Len(sections) = 0 THEN acc
    ELSE ParseLoop(ParseSection(acc, Head(sections)), Tail(sections))

\* Parser.parse on a parser whose state_input field holds state_input
parse(sections, state_input) ==
    ParseLoop([states |-> <<>>, state_input |-> state_input, err |-> "none"], sections)

-----------------------------------------------------------------------------
(* GameState and GameStateManager construction (src/main.py)               *)

\* GameState.__init__
GameState(init_obj) ==
    [state_index |-> init_obj.state_idx,
     message_blocks |-> init_obj.message_blocks,
     replies |-> init_obj.replies,
     allow_input |-> init_obj.allow_input,
     is_lethal |-> init_obj.is_lethal,
     is_victory |-> init_obj.is_victory]

\* The dict comprehension of GameStateManager.__init__: a later section
\* with the same state_idx replaces the earlier one.
RECURSIVE BuildStates(_, _)
BuildStates(states, dict) ==
    IF Len(states) = 0 THEN dict
    ELSE LET o == Head(states)
             keys == DOMAIN dict \cup {o.state_idx}
         IN  BuildStates(Tail(states),
                         [k \in keys |-> IF k = o.state_idx THEN GameState(o) ELSE dict[k]])

\* GameStateManager.__init__: a fresh Parser, one parse call
LoadGame(sections) ==
    LET p == parse(sections, None)
    IN  [err |-> p.err,
         game_states |-> IF p.err = "none" THEN BuildStates(p.states, <<>>) ELSE <<>>]

-----------------------------------------------------------------------------
(* Python dict operations                                                  *)

EmptyDict == [k \in {} |-> None]

Has(d, k) == k \in DOMAIN d

\* d[k] = v
Put(d, k, v) == [x \in DOMAIN d \cup {k} |-> IF x = k THEN v ELSE d[x]]

Range(seq) == {seq[i] : i \in DOMAIN seq}

-----------------------------------------------------------------------------
(* GameState.check (src/main.py)                                           *)

\* A threshold one too high, as `>` written for `>=` would make it
MONEY_THRESHOLD_exclusive == 15 + 1

MONEY_THRESHOLD == 15

NOT == <<"n", "o", "t">>
AND == <<"a", "n", "d">>
SP_AND_SP == <<" ", "a", "n", "d", " ">>
MONEY == <<"m", "o", "n", "e", "y">>

Result(val, err) == [val |-> val, err |-> err]

\* The test of one atom, as both branches of check write it:
\* startswith('not') -> split()[1], isdigit, membership, absence ^ membership
CheckAtom(ud, part) ==
    LET absence == StartsWith(part, NOT)
        words == Split(part)
    IN  IF absence /\ Len(words) < 2 THEN Result(FALSE, "IndexError")
        ELSE LET act == IF absence THEN words[2] ELSE part
                 field == IF IsDigit(act) THEN "visited_states" ELSE "modifiers"
             IN  IF ~Has(ud, field) THEN Result(FALSE, "KeyError")
                 ELSE LET member == IF IsDigit(act)
                                    THEN ToInt(act) \in Range(ud.visited_states)
                                    ELSE act \in ud.modifiers
                      IN  Result(absence # member, "none")

\* for part in condition.split(' and '): ... return False on the first
\* failing part, True after the last
RECURSIVE CheckParts(_, _)
CheckParts(ud, parts) ==
    IF Len(parts) = 0 THEN Result(TRUE, "none")
    ELSE LET r == CheckAtom(ud, Head(parts))
         IN  IF r.err # "none" \/ ~r.val THEN r ELSE CheckParts(ud, Tail(parts))

\* GameState.check
check(ud, condition) ==
    IF condition = None THEN Result(TRUE, "none")
    ELSE IF Contains(condition, AND) THEN CheckParts(ud, SplitOn(condition, SP_AND_SP))
    ELSE CheckAtom(ud, condition)

-----------------------------------------------------------------------------
(* GameState.filter_replies and choices_kbrd (src/main.py)                 *)

\* The loop of filter_replies; acc holds final_replies and the exception
RECURSIVE FilterLoop(_, _, _)
FilterLoop(ud, replies, acc) ==
    IF Len(replies) = 0 \/ acc.err # "none" THEN acc
    ELSE LET reply == Head(replies)
         IN  IF reply.condition = None
             THEN FilterLoop(ud, Tail(replies), [acc EXCEPT !.val = Append(@, reply)])
             ELSE LET c == check(ud, reply.condition)
                  IN  IF c.err # "none" THEN Result(acc.val, c.err)
                      ELSE IF c.val
                      THEN FilterLoop(ud, Tail(replies), [acc EXCEPT !.val = Append(@, reply)])
                      ELSE FilterLoop(ud, Tail(replies), acc)

\* filter_replies without the conditions: every reply of the state
filter_replies_unconditional(state, ud) == Result(state.replies, "none")

\* GameState.filter_replies
filter_replies(state, ud) == FilterLoop(ud, state.replies, Result(<<>>, "none"))

\* choices_kbrd: the rows of buttons 1..amount
choices_kbrd(amount) ==
    LET all_buttons == [i \in 1..amount |-> i]
    IN  IF amount <= 3 THEN <<all_buttons>>
        ELSE <<SubSeq(all_buttons, 1, amount - 2), SubSeq(all_buttons, amount - 1, amount)>>

-----------------------------------------------------------------------------
(* Outbound messages: what reply_text is called with                       *)

\* reply_text(template.format(char_name=..., last_earn=..., money=...))
TextMsg(body, ud) ==
    [kind |-> "text", phrase |-> "", body |-> body, lines |-> <<>>,
     char_name |-> ud.char_name, last_earn |-> ud.last_earn, money |-> ud.money,
     keyboard |-> <<>>, wait |-> 0]

\* reply_text(reply_choices.format(...), reply_markup=choices_kbrd(n))
MenuMsg(filtered, ud) ==
    [kind |-> "menu", phrase |-> "", body |-> <<>>,
     lines |-> [i \in DOMAIN filtered |-> [idx |-> i, text |-> filtered[i].text]],
     char_name |-> ud.char_name, last_earn |-> ud.last_earn, money |-> ud.money,
     keyboard |-> choices_kbrd(Len(filtered)), wait |-> 0]

\* reply_text(p.<NAME>): one of the fixed phrases of the phrases module
PhraseMsg(name) ==
    [kind |-> "phrase", phrase |-> name, body |-> <<>>, lines |-> <<>>,
     char_name |-> <<>>, last_earn |-> <<>>, money |-> 0,
     keyboard |-> <<>>, wait |-> 0]

\* time.sleep(wait), which holds the handler (and its thread) for wait seconds
SleepMark(wait) ==
    [kind |-> "sleep", phrase |-> "", body |-> <<>>, lines |-> <<>>,
     char_name |-> <<>>, last_earn |-> <<>>, money |-> 0,
     keyboard |-> <<>>, wait |-> wait]

FormatKeys == {"char_name", "last_earn", "money"}

-----------------------------------------------------------------------------
(* Money and GameState.present (src/main.py)                               *)

\* Money.__init__ on the str the parser stores as the component's content:
\* random.randint(1, int(amount.split()[1])); every amount it can draw
Money(amount) ==
    LET words == Split(amount)
    IN  IF Len(words) < 2 THEN Result({}, "IndexError")
        ELSE IF ~IsDigit(words[2]) \/ ToInt(words[2]) < 1 THEN Result({}, "ValueError")
        ELSE Result(1..ToInt(words[2]), "none")

Raise(ps, err) == [ps EXCEPT !.err = err]

\* One component of a block; ps holds user_data, current_message, the
\* messages sent so far and the exception raised, if any.  The result is
\* the set of states the component can leave (one per amount drawn).
RunComponent(ps, component) ==
    IF ps.err # "none" THEN {ps}
    ELSE CASE component.type = "message" ->
                {[ps EXCEPT !.msg = @ \o component.content]}
           [] component.type = "mbreak" ->
                IF ~(FormatKeys \subseteq DOMAIN ps.ud) THEN {Raise(ps, "KeyError")}
                ELSE {[ps EXCEPT !.out = @ \o <<TextMsg(ps.msg, ps.ud), SleepMark(component.wait)>>,
                                 !.msg = <<>>]}
           [] component.type = "modifier" ->
                LET content == component.content
                IN  IF StartsWith(content, NOT)
                    THEN IF ~Has(ps.ud, "modifiers") THEN {Raise(ps, "KeyError")}
                         ELSE IF Len(Split(content)) < 2 THEN {Raise(ps, "IndexError")}
                         ELSE IF Split(content)[2] \notin ps.ud.modifiers
                              THEN {Raise(ps, "KeyError")}
                         ELSE {[ps EXCEPT !.ud = Put(@, "modifiers",
                                                     ps.ud.modifiers \ {Split(content)[2]})]}
                    ELSE IF ~Has(ps.ud, "modifiers") THEN {Raise(ps, "KeyError")}
                         ELSE {[ps EXCEPT !.ud = Put(@, "modifiers",
                                                     ps.ud.modifiers \cup {content})]}
           [] component.type = "money" ->
                LET m == Money(component.content)
                IN  IF m.err # "none" THEN {Raise(ps, m.err)}
                    ELSE {IF ~Has(ps.ud, "money")
                          THEN [ps EXCEPT !.ud = Put(@, "last_earn", <<amount>>),
                                          !.err = "KeyError"]
                          ELSE LET earned == Put(Put(ps.ud, "last_earn", <<amount>>),
                                                 "money", ps.ud.money + amount)
                               IN  IF earned.money >= MONEY_THRESHOLD
                                   THEN IF ~Has(earned, "modifiers")
                                        THEN [ps EXCEPT !.ud = earned, !.err = "KeyError"]
                                        ELSE [ps EXCEPT !.ud = Put(earned, "modifiers",
                                                        earned.modifiers \cup {MONEY})]
                                   ELSE [ps EXCEPT !.ud = earned]
                          : amount \in m.val}
           [] OTHER -> {ps}

RECURSIVE RunComponents(_, _)
RunComponents(pss, components) ==
    IF Len(components) = 0 THEN pss
    ELSE RunComponents(UNION {RunComponent(ps, Head(components)) : ps \in pss},
                       Tail(components))

\* One message block: skipped when its condition is false
RunBlock(ps, block) ==
    IF ps.err # "none" THEN {ps}
    ELSE LET c == check(ps.ud, block.condition)
         IN  IF c.err # "none" THEN {Raise(ps, c.err)}
             ELSE IF ~c.val THEN {ps}
             ELSE RunComponents({ps}, block.content)

\* The blocks chosen by their conditions as the session was before the
\* first block, instead of when each block is reached
RECURSIVE RunChosen(_, _, _)
RunChosen(pss, blocks, ud0) ==
    IF Len(blocks) = 0 THEN pss
    ELSE LET c == check(ud0, Head(blocks).condition)
         IN  IF c.err = "none" /\ c.val
             THEN RunChosen(RunComponents(pss, Head(blocks).content), Tail(blocks), ud0)
             ELSE RunChosen(pss, Tail(blocks), ud0)

RunBlocks_snapshot(pss, blocks) == UNION {RunChosen({ps}, blocks, ps.ud) : ps \in pss}

RECURSIVE RunBlocks(_, _)
RunBlocks(pss, blocks) ==
    IF Len(blocks) = 0 THEN pss
    ELSE RunBlocks(UNION {RunBlock(ps, Head(blocks)) : ps \in pss}, Tail(blocks))

\* The last flush of present: only a buffer that is not empty and not blank
FinalFlush(ps) ==
    IF ps.err # "none" THEN ps
    ELSE IF Len(ps.msg) > 0 /\ ~IsSpace(ps.msg)
         THEN IF ~(FormatKeys \subseteq DOMAIN ps.ud) THEN Raise(ps, "KeyError")
              ELSE [ps EXCEPT !.out = Append(@, TextMsg(ps.msg, ps.ud)), !.msg = <<>>]
         ELSE ps

\* The end of present: a terminal state clears user_data, any other state
\* stores the filtered replies and sends the menu unless it is empty
Finish(ps, state) ==
    IF ps.err # "none" THEN ps
    ELSE IF state.is_lethal
         THEN [ps EXCEPT !.out = Append(@, PhraseMsg("WASTED")), !.ud = EmptyDict]
    ELSE IF state.is_victory
         THEN [ps EXCEPT !.out = Append(@, PhraseMsg("VICTORY")), !.ud = EmptyDict]
    ELSE IF state.replies = None THEN Raise(ps, "TypeError")
    ELSE LET f == filter_replies(state, ps.ud)
             stored == Put(ps.ud, "filtered", f.val)
         IN  IF f.err # "none" THEN Raise(ps, f.err)
             ELSE IF Len(f.val) = 0 THEN [ps EXCEPT !.ud = stored]
             ELSE IF ~(FormatKeys \subseteq DOMAIN ps.ud)
                  THEN [ps EXCEPT !.ud = stored, !.err = "KeyError"]
             ELSE [ps EXCEPT !.ud = stored, !.out = Append(@, MenuMsg(f.val, stored))]

\* GameState.present: every way the presentation of state can end, from
\* user_data ud and with the messages sent0 already sent by the handler
present(state, ud, sent0) ==
    {Finish(FinalFlush(ps), state) :
        ps \in RunBlocks({[ud |-> ud, msg |-> <<>>, out |-> sent0, err |-> "none"]},
                         state.message_blocks)}

-----------------------------------------------------------------------------
(* Inbound updates and the handlers' patterns (src/main.py, __getitem__)   *)

Users == {"u1", "u2"}

\* conversations.get(key) is None: the user has no conversation
NoConversation == -1

ASK == <<"A", "S", "K">>
START == <<"/", "s", "t", "a", "r", "t">>

Message(text) == [kind |-> "message", text |-> text]
Callback(data) == [kind |-> "callback", text |-> data]

\* CommandHandler('start', ...)
IsStartCommand(update) ==
    /\ update.kind = "message"
    /\ Len(Split(update.text)) > 0
    /\ Split(update.text)[1] = START

\* Filters.text: a text message that is not a command
FiltersText(update) ==
    update.kind = "message" /\ Len(update.text) > 0 /\ update.text[1] # "/"

\* RegexHandler(re.compile('ASK', re.I)): re.match, so a prefix
MatchesAsk(update) ==
    /\ update.kind = "message"
    /\ Len(update.text) >= Len(ASK)
    /\ \A i \in DOMAIN ASK : Upper(update.text[i]) = ASK[i]

\* RegexHandler('^[a-zA-Z]{3}$')
MatchesThreeLetters(update) ==
    /\ update.kind = "message"
    /\ Len(update.text) = 3
    /\ \A i \in DOMAIN update.text : update.text[i] \in Letters

\* RegexHandler('1'): re.match, so a prefix
MatchesOne(update) ==
    update.kind = "message" /\ Len(update.text) > 0 /\ update.text[1] = "1"

\* RegexHandler('[0-9]+'): re.match, so a prefix
MatchesDigits(update) ==
    update.kind = "message" /\ Len(update.text) > 0 /\ update.text[1] \in Digits

\* The handlers with the three-letter pattern tried before ASK
Handlers_wrong_first(gs, state) ==
    IF state = 0 THEN <<"save_name">>
    ELSE IF gs[state].allow_input # None
         THEN <<"input_wrong", "input_correct", "process_choice_one", "input_random">>
         ELSE <<"process_choice_text", "process_choice_button">>

\* GameStateManager.__getitem__: the handlers of a conversation state, in
\* the order the conversation handler tries them
Handlers(gs, state) ==
    IF state = 0 THEN <<"save_name">>
    ELSE IF gs[state].allow_input # None
         THEN <<"input_correct", "input_wrong", "process_choice_one", "input_random">>
         ELSE <<"process_choice_text", "process_choice_button">>

\* check_update of each handler __getitem__ builds
Accepts(handler, update) ==
    CASE handler = "save_name" -> FiltersText(update)
      [] handler = "input_correct" -> MatchesAsk(update)
      [] handler = "input_wrong" -> MatchesThreeLetters(update)
      [] handler = "process_choice_one" -> MatchesOne(update)
      [] handler = "input_random" -> FiltersText(update)
      [] handler = "process_choice_text" -> MatchesDigits(update)
      [] handler = "process_choice_button" -> update.kind = "callback"
      [] OTHER -> FALSE

\* The callback a handler name stands for
CallbackOf(handler) ==
    IF handler \in {"process_choice_one", "process_choice_text", "process_choice_button"}
    THEN "process_choice" ELSE handler

\* ConversationHandler(entry_points=[CommandHandler('start', prompt_name)],
\* states=state_manager, fallbacks=[], allow_reentry=True): the callback
\* that handles update in conversation state `state`, or "none"
SelectHandler(gs, state, update) ==
    IF IsStartCommand(update) THEN "prompt_name"
    ELSE IF state = NoConversation THEN "none"
    ELSE IF state # 0 /\ state \notin DOMAIN gs THEN "none"
    ELSE LET hs == Handlers(gs, state)
             hit == {i \in DOMAIN hs : Accepts(hs[i], update)}
         IN  IF hit = {} THEN "none"
             ELSE CallbackOf(hs[CHOOSE i \in hit : \A j \in hit : i <= j])

\* The lock fields written by the first lookup of a lock state only and
\* kept from then on
LockAfterLookup_first_only(gs, state, update, lock) ==
    IF /\ lock = None
       /\ ~IsStartCommand(update)
       /\ state \notin {NoConversation, 0}
       /\ state \in DOMAIN gs
       /\ gs[state].allow_input # None
    THEN gs[state].allow_input
    ELSE lock

\* __getitem__ stores the lock of the state it is asked for on the manager
\* (self.on_correct_input, self.on_wrong_input = state_obj.allow_input)
LockAfterLookup(gs, state, update, lock) ==
    IF /\ ~IsStartCommand(update)
       /\ state \notin {NoConversation, 0}
       /\ state \in DOMAIN gs
       /\ gs[state].allow_input # None
    THEN gs[state].allow_input
    ELSE lock

-----------------------------------------------------------------------------
(* The callbacks of GameStateManager (src/main.py).  Each yields the set   *)
(* of ways the callback can end: user_data as it leaves it, the messages   *)
(* sent, the exception that ended it ("none" when it returned) and the     *)
(* state it returned.                                                      *)

Outcome(ud, sent, err, ret) == [ud |-> ud, out |-> sent, err |-> err, ret |-> ret]

\* A presentation that ends a callback returning ret
Presented(pss, ret) == {Outcome(ps.ud, ps.out, ps.err, ret) : ps \in pss}

\* GameStateManager.prompt_name
prompt_name(ud) == {Outcome(ud, <<PhraseMsg("NAME_PROMPT")>>, "none", 0)}

\* save_name without user_data.clear() and the resets of modifiers and money
save_name_keeping_session(gs, ud, text) ==
    IF 1 \notin DOMAIN gs THEN {Outcome(ud, <<>>, "KeyError", 1)}
    ELSE LET kept == [current_state |-> 1,
                      char_name |-> text,
                      visited_states |-> <<1>>,
                      modifiers |-> IF Has(ud, "modifiers") THEN ud.modifiers ELSE {},
                      last_earn |-> None,
                      money |-> IF Has(ud, "money") THEN ud.money ELSE 0]
         IN  Presented(present(gs[1], kept, <<PhraseMsg("NAME_ACCEPTED")>>), 1)

\* GameStateManager.save_name
save_name(gs, ud, text) ==
    IF 1 \notin DOMAIN gs THEN {Outcome(EmptyDict, <<>>, "KeyError", 1)}
    ELSE LET fresh == [current_state |-> 1,
                       char_name |-> text,
                       visited_states |-> <<1>>,
                       modifiers |-> {},
                       last_earn |-> None,
                       money |-> 0]
         IN  Presented(present(gs[1], fresh, <<PhraseMsg("NAME_ACCEPTED")>>), 1)

\* list[i] for a Python index i: negative indices count from the end
PyIndexOk(list, i) == -Len(list) <= i /\ i < Len(list)
PyIndex(list, i) == IF i >= 0 THEN list[i + 1] ELSE list[Len(list) + i + 1]

\* The replies of the current state, unfiltered
StateReplies(gs, ud) == gs[ud.current_state].replies

\* user_data['filtered']: the list process_choice indexes
OfferedReplies(gs, ud) == ud.filtered

\* GameStateManager.process_choice
process_choice(gs, ud, update) ==
    IF ~IsDigit(update.text) THEN {Outcome(ud, <<>>, "ValueError", 0)}
    ELSE LET choice == ToInt(update.text)
         IN  IF ~Has(ud, "filtered") THEN {Outcome(ud, <<>>, "KeyError", 0)}
             ELSE IF ~PyIndexOk(OfferedReplies(gs, ud), choice - 1)
             THEN \* except IndexError: update.callback_query.message.reply_text
                  IF update.kind # "callback" THEN {Outcome(ud, <<>>, "AttributeError", 0)}
                  ELSE IF ~Has(ud, "current_state")
                       THEN {Outcome(ud, <<PhraseMsg("INVALID_CHOICE")>>, "KeyError", 0)}
                       ELSE {Outcome(ud, <<PhraseMsg("INVALID_CHOICE")>>, "none",
                                     gs[ud.current_state].state_index)}
             ELSE LET new_state == PyIndex(OfferedReplies(gs, ud), choice - 1).dest_state
                  IN  IF new_state \notin DOMAIN gs THEN {Outcome(ud, <<>>, "KeyError", 0)}
                      ELSE LET moved == Put(ud, "current_state", new_state)
                           IN  IF ~Has(ud, "visited_states")
                               THEN {Outcome(moved, <<>>, "KeyError", 0)}
                               ELSE Presented(
                                      present(gs[new_state],
                                              Put(moved, "visited_states",
                                                  Append(ud.visited_states, new_state)),
                                              <<>>),
                                      new_state)

\* A lock move that starts visited_states over at the state it enters
LockMove_restarting_path(gs, ud, new_state) ==
    IF new_state \notin DOMAIN gs THEN {Outcome(ud, <<>>, "KeyError", 0)}
    ELSE Presented(present(gs[new_state],
                           Put(Put(ud, "current_state", new_state),
                               "visited_states", <<new_state>>),
                           <<>>),
                   new_state)

\* input_correct and input_wrong, which differ in the lock target they read
LockMove(gs, ud, new_state) ==
    IF new_state \notin DOMAIN gs THEN {Outcome(ud, <<>>, "KeyError", 0)}
    ELSE Presented(present(gs[new_state], Put(ud, "current_state", new_state), <<>>),
                   new_state)

\* GameStateManager.input_correct
input_correct(gs, ud, lock) ==
    IF lock = None THEN {Outcome(ud, <<>>, "AttributeError", 0)}
    ELSE LockMove(gs, ud, lock[1])

\* GameStateManager.input_wrong
input_wrong(gs, ud, lock) ==
    IF lock = None THEN {Outcome(ud, <<>>, "AttributeError", 0)}
    ELSE LockMove(gs, ud, lock[2])

\* GameStateManager.input_random
input_random(gs, ud) ==
    IF ~Has(ud, "current_state")
    THEN {Outcome(ud, <<PhraseMsg("RANDOM_INPUT")>>, "KeyError", 0)}
    ELSE {Outcome(ud, <<PhraseMsg("RANDOM_INPUT")>>, "none",
                  gs[ud.current_state].state_index)}

-----------------------------------------------------------------------------
(* Game files                                                              *)

KEY == <<"k", "e", "y">>
TORCH == <<"t", "o", "r", "c", "h">>

Neg(token) == NOT \o <<" ">> \o token
Conj(left, right) == left \o SP_AND_SP \o right

\* A game with a money gain, conditional blocks and replies, a tag added
\* and removed, a lock state (2), a victory (4) and a lethal (5) state
MainScript ==
    << ChoiceSection(<<"1">>,
         << Span(None, << TextPart(<<"H", "i", " ">>),
                          MoneyTag(<<"u", "p", " ", "8">>),
                          MbTag(<<"1">>) >>),
            Span(KEY, << ModTag(Neg(KEY)), TextPart(<<"u", "s", "e", "d">>) >>) >>,
         << ReplyLine(MONEY, <<"b", "u", "y">>, <<"4">>),
            ReplyLine(None, <<"d", "o", "o", "r">>, <<"2">>),
            ReplyLine(Conj(<<"2">>, Neg(TORCH)), <<"j", "u", "m", "p">>, <<"5">>) >>),
       ChoiceSection(<<"2">>,
         << Span(None, << TextPart(<<"D", "o", "o", "r">>),
                          InputTag(<<"c", "o", "d", "e">>, <<"3">>, <<"5">>) >>) >>,
         << ReplyLine(None, <<"b", "a", "c", "k">>, <<"1">>),
            ReplyLine(TORCH, <<"b", "u", "r", "n">>, <<"4">>) >>),
       ChoiceSection(<<"3">>,
         << Span(None, << ModTag(KEY), TextPart(<<"*", "*", "O", "p", "e", "n">>),
                          MbTag(None) >>),
            Span(Neg(TORCH), << ModTag(TORCH) >>) >>,
         << ReplyLine(Neg(<<"3">>), <<"o", "u", "t">>, <<"1">>),
            ReplyLine(None, <<"s", "t", "a", "y">>, <<"3">>),
            ReplyLine(<<"3">>, <<"h", "o", "m", "e">>, <<"1">>) >>),
       VictorySection(<<"4">>, << Span(None, << TextPart(<<"W", "o", "n">>) >>) >>),
       LethalSection(<<"5">>, << Span(None, << TextPart(<<"D", "e", "a", "d">>) >>) >>) >>

-----------------------------------------------------------------------------
(* What users send                                                         *)

\* The texts a user types (also as the character's name)
Texts ==
    { <<"A", "S", "K">>, <<"a", "s", "k">>, <<"x", "y", "z">>, <<"h", "i">>,
      <<"0">>, <<"1">>, <<"2">>, <<"3">>, <<"1", "2">>,
      <<"a", "s", "k", "i", "n", "g">>, <<"1", "a">> }

\* The names explored at name intake: a word and a number
Names == { <<"h", "i">>, <<"1">> }

\* The longest menu a state of the game can offer
MaxMenu(gs) ==
    LET sizes == {IF gs[k].replies = None THEN 0 ELSE Len(gs[k].replies) : k \in DOMAIN gs}
    IN  IF sizes = {} THEN 0 ELSE CHOOSE n \in sizes : \A m \in sizes : m <= n

\* The callback data of the buttons choices_kbrd has put on a keyboard:
\* str(btn) for btn in 1..amount
ButtonData(gs) == {<<DigitSeq[btn + 1]>> : btn \in 1..MaxMenu(gs)}

\* The length visited_states is explored up to
MaxVisited == 4

-----------------------------------------------------------------------------
(* The dispatcher: one update of one user, handled to the end by the       *)
(* callback the conversation handler selects.  An exception in a callback  *)
(* is logged by the dispatcher; the conversation state is then not         *)
(* updated, while what the callback had written to user_data stays.        *)

InBounds(ud) == Has(ud, "visited_states") => Len(ud.visited_states) <= MaxVisited

Handle(u, update, callback, outcomes) ==
    /\ load_err = "none"
    /\ SelectHandler(game_states, conv[u], update) = callback
    /\ \E res \in outcomes :
          /\ InBounds(res.ud)
          /\ user_data' = [user_data EXCEPT ![u] = res.ud]
          /\ conv' = [conv EXCEPT ![u] = IF res.err = "none" THEN res.ret ELSE @]
          /\ out' = res.out
          /\ last' = [user |-> u, kind |-> update.kind, text |-> update.text,
                      handler |-> callback, err |-> res.err,
                      had |-> user_data[u] # EmptyDict]
    /\ lock_dests' = LockAfterLookup(game_states, conv[u], update, lock_dests)
    /\ UNCHANGED <<script, load_err, game_states, probe, asleep>>

PromptName(u) ==
    Handle(u, Message(START), "prompt_name", prompt_name(user_data[u]))

SaveName(u, text) ==
    Handle(u, Message(text), "save_name", save_name(game_states, user_data[u], text))

ProcessChoiceTyped(u, text) ==
    Handle(u, Message(text), "process_choice",
           process_choice(game_states, user_data[u], Message(text)))

ProcessChoiceButton(u, data) ==
    Handle(u, Callback(data), "process_choice",
           process_choice(game_states, user_data[u], Callback(data)))

InputCorrect(u, text) ==
    Handle(u, Message(text), "input_correct",
           input_correct(game_states, user_data[u],
                         LockAfterLookup(game_states, conv[u], Message(text), lock_dests)))

InputWrong(u, text) ==
    Handle(u, Message(text), "input_wrong",
           input_wrong(game_states, user_data[u],
                       LockAfterLookup(game_states, conv[u], Message(text), lock_dests)))

InputRandom(u, text) ==
    Handle(u, Message(text), "input_random", input_random(game_states, user_data[u]))

\* No handler accepts the update: nothing is called
IgnoredText(u, text) ==
    Handle(u, Message(text), "none", {Outcome(user_data[u], <<>>, "none", conv[u])})

IgnoredButton(u, data) ==
    Handle(u, Callback(data), "none", {Outcome(user_data[u], <<>>, "none", conv[u])})

-----------------------------------------------------------------------------
(* Specifications                                                          *)

NoUpdate ==
    [user |-> "", kind |-> "", text |-> <<>>, handler |-> "", err |-> "none", had |-> FALSE]

\* main(): the manager built from the game file, nobody in a conversation.
\* When GameStateManager(...) raises, main() ends and no update is handled.
InitWith(scripts) ==
    /\ script \in scripts
    /\ load_err = LoadGame(script).err
    /\ game_states = LoadGame(script).game_states
    /\ lock_dests = None
    /\ conv = [u \in Users |-> NoConversation]
    /\ user_data = [u \in Users |-> EmptyDict]
    /\ last = NoUpdate
    /\ out = <<>>
    /\ probe = None
    /\ asleep = None

Solo == {"u1"}

Init == InitWith({MainScript})

Next ==
    \/ \E u \in Solo : PromptName(u)
    \/ \E u \in Solo, text \in Names : SaveName(u, text)
    \/ \E u \in Solo, text \in Texts : ProcessChoiceTyped(u, text)
    \/ \E u \in Solo, data \in ButtonData(game_states) : ProcessChoiceButton(u, data)
    \/ \E u \in Solo, text \in Texts : InputCorrect(u, text)
    \/ \E u \in Solo, text \in Texts : InputWrong(u, text)
    \/ \E u \in Solo, text \in Texts : InputRandom(u, text)
    \/ \E u \in Solo, text \in Texts : IgnoredText(u, text)
    \/ \E u \in Solo, data \in ButtonData(game_states) : IgnoredButton(u, data)

Spec == Init /\ [][Next]_vars

-----------------------------------------------------------------------------
(* Vocabulary of the properties                                            *)

\* u has a session: every key save_name and present set is there
Live(u) == Has(user_data[u], "filtered")

\* u is in Playing(s): in conversation state s of the game, with a session
\* whose current state is s
Playing(u) ==
    /\ conv[u] \in DOMAIN game_states
    /\ Live(u)
    /\ user_data[u].current_state = conv[u]

IsLock(s) == game_states[s].allow_input # None
IsTerminal(s) == game_states[s].is_lethal \/ game_states[s].is_victory

\* The step handles a text message of u / a selection of u (a typed number
\* or a button), as the history variable last records it
TextStep(u) == last'.user = u /\ last'.kind = "message" /\ FiltersText(Message(last'.text))
SelectionStep(u) ==
    /\ last'.user = u
    /\ IsDigit(last'.text)
    /\ last'.kind = "callback" \/ (last'.kind = "message" /\ ~IsLock(conv[u]))

\* The session fields the per-turn failures must leave alone
SessionUnchanged(u) == user_data'[u] = user_data[u] /\ conv'[u] = conv[u]

\* text is ASK in some letter case
IsAskAnyCase(text) == Len(text) = 3 /\ \A i \in 1..3 : Upper(text[i]) = ASK[i]

IsLetters(text, n) == Len(text) = n /\ \A i \in DOMAIN text : text[i] \in Letters

-----------------------------------------------------------------------------
(* C1: in Playing(s), a selection outside 1..len(last_offered_replies),    *)
(* typed or sent by button, 0 included, leaves the session and the         *)
(* conversation state as they were and emits the invalid-choice message.   *)
C1_OutOfRangeChoiceRejected ==
    [][\A u \in Users :
         ( /\ Playing(u)
           /\ SelectionStep(u)
           /\ ToInt(last'.text) \notin 1..Len(user_data[u].filtered) )
         => /\ SessionUnchanged(u)
            /\ out' = <<PhraseMsg("INVALID_CHOICE")>>
            /\ last'.err = "none"]_vars

-----------------------------------------------------------------------------
(* C2: in a non-lock Playing(s), selection k in 1..len(last_offered_       *)
(* replies) moves to the destination of the k-th reply of the list stored  *)
(* at the last presentation: that id is appended once to visited_states,   *)
(* becomes the current state, and the destination is presented.            *)
C2_InRangeChoiceFollowsOfferedReply ==
    [][\A u \in Users :
         ( /\ Playing(u)
           /\ ~IsLock(conv[u])
           /\ SelectionStep(u)
           /\ ToInt(last'.text) \in 1..Len(user_data[u].filtered) )
         => LET dest == user_data[u].filtered[ToInt(last'.text)].dest_state
                entered == Put(Put(user_data[u], "current_state", dest),
                               "visited_states",
                               Append(user_data[u].visited_states, dest))
            IN  /\ last'.handler = "process_choice"
                /\ last'.err = "none"
                /\ conv'[u] = dest
                /\ \E ps \in present(game_states[dest], entered, <<>>) :
                      user_data'[u] = ps.ud /\ out' = ps.out
                /\ ~IsTerminal(dest) =>
                      /\ user_data'[u].current_state = dest
                      /\ user_data'[u].visited_states =
                            Append(user_data[u].visited_states, dest)]_vars

\* A first selection at state 1, where the first offered reply (door, to
\* state 2) is the second reply of the state
C2_Witness ==
    /\ last.handler = "process_choice"
    /\ last.text = <<"1">>
    /\ last.err = "none"
    /\ conv["u1"] = 2
    /\ Live("u1")
    /\ user_data["u1"].visited_states = <<1, 2>>
    /\ game_states[1].replies[1].dest_state # 2

-----------------------------------------------------------------------------
(* C3: once a lethal or victory state has been presented the session is    *)
(* cleared and the very next text of that user is taken as the name: it    *)
(* is handled by save_name and starts a fresh session at state 1, with no  *)
(* handler reading the cleared session.                                    *)
TerminalPresented(u) ==
    /\ last.user = u
    /\ last.err = "none"
    /\ Len(out) > 0
    /\ out[Len(out)].kind = "phrase"
    /\ out[Len(out)].phrase \in {"WASTED", "VICTORY"}

C3_TextAfterTerminalIsNameIntake ==
    [][\A u \in Users :
         (TerminalPresented(u) /\ TextStep(u))
         => /\ user_data[u] = EmptyDict
            /\ last'.handler = "save_name"
            /\ last'.err = "none"
            /\ conv'[u] = 1
            /\ user_data'[u].visited_states[1] = 1]_vars

-----------------------------------------------------------------------------
(* C4: in a state whose lock is (C, W): ASK in any letter case goes to C;  *)
(* three letters that are not ASK go to W; "1" is the ordinary choose(1);  *)
(* a two-letter word gets the nudge and no transition.                     *)
C4_LockProtocol ==
    [][\A u \in Users :
         (Playing(u) /\ IsLock(conv[u]) /\ TextStep(u))
         => LET lock == game_states[conv[u]].allow_input
                text == last'.text
                offered == user_data[u].filtered
            IN  /\ IsAskAnyCase(text) =>
                      /\ last'.handler = "input_correct"
                      /\ last'.err = "none"
                      /\ conv'[u] = lock[1]
                      /\ ~IsTerminal(lock[1]) => user_data'[u].current_state = lock[1]
                /\ (IsLetters(text, 3) /\ ~IsAskAnyCase(text)) =>
                      /\ last'.handler = "input_wrong"
                      /\ last'.err = "none"
                      /\ conv'[u] = lock[2]
                      /\ ~IsTerminal(lock[2]) => user_data'[u].current_state = lock[2]
                /\ (text = <<"1">> /\ Len(offered) >= 1) =>
                      /\ last'.handler = "process_choice"
                      /\ last'.err = "none"
                      /\ conv'[u] = offered[1].dest_state
                      /\ ~IsTerminal(offered[1].dest_state) =>
                            user_data'[u].visited_states =
                               Append(user_data[u].visited_states, offered[1].dest_state)
                /\ IsLetters(text, 2) =>
                      /\ last'.handler = "input_random"
                      /\ out' = <<PhraseMsg("RANDOM_INPUT")>>
                      /\ SessionUnchanged(u)]_vars

\* The lock of state 2 opened with "ask": the user is in state 3
C4_Witness ==
    /\ last.handler = "input_correct"
    /\ last.text = <<"a", "s", "k">>
    /\ last.err = "none"
    /\ conv["u1"] = 3
    /\ Live("u1")
    /\ user_data["u1"].current_state = 3
    /\ lock_dests = <<3, 5>>

-----------------------------------------------------------------------------
(* C5: in a lock state, a text that is not exactly ASK (any case), not     *)
(* exactly three letters and not exactly "1" gets the nudge and leaves     *)
(* the session unchanged.                                                  *)
C5_OtherLockInputIsNudged ==
    [][\A u \in Users :
         ( /\ Playing(u)
           /\ IsLock(conv[u])
           /\ TextStep(u)
           /\ ~IsAskAnyCase(last'.text)
           /\ ~IsLetters(last'.text, 3)
           /\ last'.text # <<"1">> )
         => /\ last'.handler = "input_random"
            /\ out' = <<PhraseMsg("RANDOM_INPUT")>>
            /\ SessionUnchanged(u)]_vars

-----------------------------------------------------------------------------
(* Calls of GameState.check on its own: the sessions and conditions a      *)
(* call is made with, and the call.                                        *)

NOTE == <<"n", "o", "t", "e">>
SAND == <<"s", "a", "n", "d">>

\* Tokens of a condition: state ids, and tags of several spellings
CheckTokens == { <<"1">>, <<"2">>, KEY, NOTE, SAND }

\* An atom is a token or 'not token'
Atoms == [neg : BOOLEAN, token : CheckTokens]

\* The number of atoms a condition is explored up to
MaxAtoms == 2

AtomLists == UNION {[1..n -> Atoms] : n \in 0..MaxAtoms}

RenderAtom(atom) == IF atom.neg THEN Neg(atom.token) ELSE atom.token

\* The condition string of a list of atoms: joined by ' and '; no atom at
\* all is the missing condition, None
RECURSIVE Render(_)
Render(atoms) ==
    IF Len(atoms) = 0 THEN None
    ELSE IF Len(atoms) = 1 THEN RenderAtom(atoms[1])
    ELSE RenderAtom(atoms[1]) \o SP_AND_SP \o Render(Tail(atoms))

ProbeSessions ==
    { [current_state |-> 1, char_name |-> <<"h", "i">>, visited_states |-> visited,
       modifiers |-> tags, last_earn |-> None, money |-> 0, filtered |-> <<>>] :
         visited \in {<<1>>, <<1, 2>>, <<1, 2, 1>>},
         tags \in SUBSET {KEY, NOTE, SAND} }

Pending == Result(FALSE, "pending")

InitCheck ==
    /\ probe \in [ud : ProbeSessions, atoms : AtomLists, result : {Pending}]
    /\ script = <<>>
    /\ load_err = "none"
    /\ game_states = <<>>
    /\ lock_dests = None
    /\ conv = [u \in Users |-> NoConversation]
    /\ user_data = [u \in Users |-> EmptyDict]
    /\ last = NoUpdate
    /\ out = <<>>
    /\ asleep = None

\* check(user_data, condition) is called and returns or raises
Evaluate ==
    /\ probe.result = Pending
    /\ probe' = [probe EXCEPT !.result = check(probe.ud, Render(probe.atoms))]
    /\ UNCHANGED <<script, load_err, game_states, lock_dests, conv, user_data, last, out,
                   asleep>>

NextCheck == Evaluate

SpecCheck == InitCheck /\ [][NextCheck]_vars

-----------------------------------------------------------------------------
(* C6: for every session and every condition of atoms joined by ' and ',   *)
(* each a token or 'not token' (an all-digit token tests visited_states,   *)
(* any other token, whatever its spelling, tests modifiers), evaluate      *)
(* returns true exactly when every atom holds, 'not' inverting its own     *)
(* atom only; the missing condition is true.                               *)
AtomHolds(ud, atom) ==
    atom.neg # (IF IsDigit(atom.token)
                THEN ToInt(atom.token) \in Range(ud.visited_states)
                ELSE atom.token \in ud.modifiers)

TruthTable(ud, atoms) == \A i \in DOMAIN atoms : AtomHolds(ud, atoms[i])

C6_CheckMatchesTruthTable ==
    probe # None /\ probe.result # Pending
    => probe.result = Result(TruthTable(probe.ud, probe.atoms), "none")

-----------------------------------------------------------------------------
(* C7: at every presentation of a non-terminal state the offered replies   *)
(* are exactly the replies of the state whose condition is absent or true  *)
(* of the session, in source order; the menu numbers them 1..n by their    *)
(* place in that list, and that list is what last_offered_replies holds.   *)

\* The last update ran a presentation to its end
JustPresented(u) ==
    /\ last.user = u
    /\ last.err = "none"
    /\ last.handler \in {"save_name", "process_choice", "input_correct", "input_wrong"}
    /\ \A i \in DOMAIN out : out[i].phrase # "INVALID_CHOICE"

\* The indices, in the state's reply list, of the replies to offer
Eligible(u) ==
    LET replies == game_states[user_data[u].current_state].replies
    IN  {i \in DOMAIN replies :
            \/ replies[i].condition = None
            \/ check(user_data[u], replies[i].condition).val}

\* The j-th smallest index of a set of indices
NthOf(indices, j) == CHOOSE i \in indices : Cardinality({m \in indices : m < i}) = j - 1

OfferedIsFilter(u) ==
    LET replies == game_states[user_data[u].current_state].replies
        offered == user_data[u].filtered
    IN  /\ Len(offered) = Cardinality(Eligible(u))
        /\ \A j \in DOMAIN offered : offered[j] = replies[NthOf(Eligible(u), j)]

MenuIsOffered(u) ==
    LET offered == user_data[u].filtered
        menus == {i \in DOMAIN out : out[i].kind = "menu"}
    IN  IF Len(offered) = 0 THEN menus = {}
        ELSE /\ menus = {Len(out)}
             /\ Len(out[Len(out)].lines) = Len(offered)
             /\ \A j \in DOMAIN offered :
                   out[Len(out)].lines[j] = [idx |-> j, text |-> offered[j].text]
             /\ UNION {Range(row) : row \in Range(out[Len(out)].keyboard)}
                   = 1..Len(offered)

C7_OfferedRepliesAreTheFilter ==
    \A u \in Users :
        Live(u) => /\ OfferedIsFilter(u)
                   /\ JustPresented(u) => MenuIsOffered(u)

\* Back at state 1 after the door: buy (reply 1) is left out, so door,
\* the second reply of the state, is number 1 of the menu, and jump number 2
C7_Witness ==
    /\ JustPresented("u1")
    /\ Live("u1")
    /\ user_data["u1"].current_state = 1
    /\ Len(user_data["u1"].filtered) = 2
    /\ Len(game_states[1].replies) = 3
    /\ out[Len(out)].kind = "menu"
    /\ out[Len(out)].lines[1].text = <<"d", "o", "o", "r">>

-----------------------------------------------------------------------------
(* C8: a gain that leaves money at 14 or less leaves the tag "money"       *)
(* absent; once a gain brings money to 15 or more the tag is in modifiers  *)
(* and stays there in every later state of the session, until the session  *)
(* is cleared.                                                             *)
HasMoneyTag(ud) == Has(ud, "modifiers") /\ MONEY \in ud.modifiers

MoneyTagFollowsBalance(ud) ==
    Has(ud, "money") =>
        /\ ud.money <= 14 => ~HasMoneyTag(ud)
        /\ ud.money >= 15 => HasMoneyTag(ud)

C8_WitnessBelow ==
    /\ Live("u1")
    /\ user_data["u1"].money = 14
    /\ ~HasMoneyTag(user_data["u1"])
    /\ Len(user_data["u1"].visited_states) = 3

-----------------------------------------------------------------------------
(* C9: provide_name(text), whatever the session held before, leaves        *)
(* before state 1 is presented exactly char_name = text, visited_states =  *)
(* [1], modifiers = {}, money = 0, last_earn = null, current state 1;      *)
(* nothing of the previous session survives and the machine is in          *)
(* Playing(1).                                                             *)
C9_NameIntakeStartsFromScratch ==
    [][\A u \in Users :
         (conv[u] = 0 /\ TextStep(u))
         => LET blank == [current_state |-> 1,
                          char_name |-> last'.text,
                          visited_states |-> <<1>>,
                          modifiers |-> {},
                          last_earn |-> None,
                          money |-> 0]
            IN  /\ last'.handler = "save_name"
                /\ last'.err = "none"
                /\ conv'[u] = 1
                /\ \E ps \in present(game_states[1], blank, <<PhraseMsg("NAME_ACCEPTED")>>) :
                      user_data'[u] = ps.ud /\ out' = ps.out
                /\ user_data'[u].char_name = last'.text
                /\ user_data'[u].visited_states = <<1>>
                /\ user_data'[u].current_state = 1
                /\ user_data'[u].modifiers \cap {KEY, TORCH, MONEY} = {}
                /\ user_data'[u].money = user_data'[u].last_earn[1]]_vars

\* A name given while an earlier session was still there
C9_Witness ==
    /\ last.handler = "save_name"
    /\ last.had
    /\ last.err = "none"
    /\ conv["u1"] = 1
    /\ user_data["u1"].visited_states = <<1>>

-----------------------------------------------------------------------------
(* Loading game files that are not well-formed graphs                      *)

\* The sections of a small game: a choice state, a lock state (2), a
\* victory and a lethal state; the parameters are what the variants change
TinySections(reply_dest, wrong_dest, input_kind) ==
    << ChoiceSection(<<"1">>,
         << Span(None, << TextPart(<<"G", "o">>) >>) >>,
         << ReplyLine(None, <<"l", "o", "c", "k">>, <<"2">>),
            ReplyLine(None, <<"e", "n", "d">>, reply_dest) >>),
       ChoiceSection(<<"2">>,
         << Span(None, << TextPart(<<"D", "o", "o", "r">>),
                          InputTag(input_kind, <<"3">>, wrong_dest) >>) >>,
         << ReplyLine(None, <<"b", "a", "c", "k">>, <<"1">>) >>),
       VictorySection(<<"3">>, << Span(None, << TextPart(<<"W", "o", "n">>) >>) >>),
       LethalSection(<<"4">>, << Span(None, << TextPart(<<"D", "e", "a", "d">>) >>) >>) >>

CODE == <<"c", "o", "d", "e">>

\* every target defined, every id used once
TinyScript == TinySections(<<"3">>, <<"4">>, CODE)

\* a reply of state 1 leads to state 7, which no section defines
DanglingReplyScript == TinySections(<<"7">>, <<"4">>, CODE)

\* the lock of state 2 sends a wrong code to state 9, which no section defines
DanglingLockScript == TinySections(<<"3">>, <<"9">>, CODE)

\* two sections are headed 2
DuplicateIdScript ==
    TinyScript \o << ChoiceSection(<<"2">>,
                       << Span(None, << TextPart(<<"H", "a", "l", "l">>) >>) >>,
                       << ReplyLine(None, <<"o", "n">>, <<"3">>) >>) >>

\* an <input .../> tag parse_input does not match: parse raises
MalformedTagScript == TinySections(<<"3">>, <<"4">>, <<>>)

LoadScripts ==
    {TinyScript, DanglingReplyScript, DanglingLockScript, DuplicateIdScript,
     MalformedTagScript}

InitLoad == InitWith(LoadScripts)

SpecLoad == InitLoad /\ [][Next]_vars

-----------------------------------------------------------------------------
(* C10: loading aborts, and no graph is built, when a reply destination    *)
(* or a lock target names an undefined state id or two sections carry the  *)
(* same id; so in a graph that loads no transition names a missing state.  *)
NoDuplicateIds(sections) ==
    \A i, j \in DOMAIN sections :
        i # j => ToInt(sections[i].header) # ToInt(sections[j].header)

ReplyTargets(sections) ==
    UNION {{ToInt(sections[i].replies[j].dest) : j \in DOMAIN sections[i].replies} :
              i \in DOMAIN sections}

\* The input tags of the parts of one span
InputTagsOf(parts) == {parts[k] : k \in {n \in DOMAIN parts : parts[n].tag = "input"}}

LockTargets(sections) ==
    UNION {UNION {UNION {{ToInt(tag.b), ToInt(tag.c)} :
                            tag \in InputTagsOf(sections[i].body[j].parts)} :
                     j \in DOMAIN sections[i].body} :
              i \in DOMAIN sections}

SectionIds(sections) == {ToInt(sections[i].header) : i \in DOMAIN sections}

WellFormedGraph(sections) ==
    /\ NoDuplicateIds(sections)
    /\ ReplyTargets(sections) \cup LockTargets(sections) \subseteq SectionIds(sections)

C10_OnlyWellFormedGraphsLoad ==
    /\ load_err = "none" => WellFormedGraph(script)
    /\ last.handler \in {"process_choice", "input_correct", "input_wrong"}
          => last.err # "KeyError"

-----------------------------------------------------------------------------
(* Two users on one manager.  The dispatcher takes one update at a time    *)
(* from its queue and runs the selected callback to its end before the     *)
(* next one (no callback is declared run_async), so the updates of the     *)
(* two users interleave update by update.                                  *)

\* A game with two lock states, 2 with lock (4, 5) and 3 with lock (6, 7)
TwoLockScript ==
    << ChoiceSection(<<"1">>,
         << Span(None, << TextPart(<<"H", "a", "l", "l">>) >>) >>,
         << ReplyLine(None, <<"l", "e", "f", "t">>, <<"2">>),
            ReplyLine(None, <<"r", "i", "g", "h", "t">>, <<"3">>) >>),
       ChoiceSection(<<"2">>,
         << Span(None, << TextPart(<<"G", "a", "t", "e">>),
                          InputTag(CODE, <<"4">>, <<"5">>) >>) >>,
         << ReplyLine(None, <<"b", "a", "c", "k">>, <<"1">>) >>),
       ChoiceSection(<<"3">>,
         << Span(None, << TextPart(<<"S", "a", "f", "e">>),
                          InputTag(CODE, <<"6">>, <<"7">>) >>) >>,
         << ReplyLine(None, <<"b", "a", "c", "k">>, <<"1">>) >>),
       VictorySection(<<"4">>, << Span(None, << TextPart(<<"O", "u", "t">>) >>) >>),
       LethalSection(<<"5">>, << Span(None, << TextPart(<<"T", "r", "a", "p">>) >>) >>),
       VictorySection(<<"6">>, << Span(None, << TextPart(<<"G", "o", "l", "d">>) >>) >>),
       LethalSection(<<"7">>, << Span(None, << TextPart(<<"G", "a", "s">>) >>) >>) >>

\* What the two users type
TwoTexts == { <<"a", "s", "k">>, <<"x", "y", "z">>, <<"h", "i">>, <<"1">>, <<"2">> }

TwoNames == { <<"h", "i">> }

InitTwo == InitWith({TwoLockScript})

NextTwo ==
    \/ \E u \in Users : PromptName(u)
    \/ \E u \in Users, text \in TwoNames : SaveName(u, text)
    \/ \E u \in Users, text \in TwoTexts : ProcessChoiceTyped(u, text)
    \/ \E u \in Users, data \in ButtonData(game_states) : ProcessChoiceButton(u, data)
    \/ \E u \in Users, text \in TwoTexts : InputCorrect(u, text)
    \/ \E u \in Users, text \in TwoTexts : InputWrong(u, text)
    \/ \E u \in Users, text \in TwoTexts : InputRandom(u, text)
    \/ \E u \in Users, text \in TwoTexts : IgnoredText(u, text)
    \/ \E u \in Users, data \in ButtonData(game_states) : IgnoredButton(u, data)

SpecTwo == InitTwo /\ [][NextTwo]_vars

-----------------------------------------------------------------------------
(* C11: with two users in different lock states and their updates handled  *)
(* in any order, a lock input takes a user to the correct_dest or the       *)
(* wrong_dest of that user's own state, never to a target of the other     *)
(* user's lock, whatever lock the manager's fields held from the other      *)
(* user's update; and handling one user's update leaves the other user's    *)
(* session and conversation state as they were.                             *)
LockOf(s) == game_states[s].allow_input

C11_LockInputUsesOwnLock ==
    [][\A u \in Users :
         /\ ( /\ last'.user = u
              /\ Playing(u)
              /\ IsLock(conv[u])
              /\ last'.handler \in {"input_correct", "input_wrong"} )
            => /\ last'.err = "none"
               /\ last'.handler = "input_correct" => conv'[u] = LockOf(conv[u])[1]
               /\ last'.handler = "input_wrong" => conv'[u] = LockOf(conv[u])[2]
               /\ \A v \in Users \ {u} :
                     ( /\ Playing(v)
                       /\ IsLock(conv[v])
                       /\ conv[v] # conv[u] )
                     => conv'[u] \notin Range(LockOf(conv[v]))
         /\ last'.user # u => SessionUnchanged(u)]_vars

\* u2 opened the lock of state 3 while u1 stood at the lock of state 2
C11_Witness ==
    /\ last.user = "u2"
    /\ last.handler = "input_correct"
    /\ last.err = "none"
    /\ conv["u2"] = 6
    /\ Playing("u1")
    /\ conv["u1"] = 2
    /\ lock_dests = <<6, 7>>

-----------------------------------------------------------------------------
(* The dispatcher thread and time.sleep.  present calls time.sleep(wait)   *)
(* inside the callback, and the callback runs on the one thread that takes *)
(* updates from the queue: while it sleeps, that thread does nothing else. *)
(* Here a callback is followed from sleep to sleep: what it has sent when  *)
(* a sleep begins is in out; the conversation state is written when the    *)
(* callback has returned, and user_data, which only this thread reads, is  *)
(* shown with the callback's changes once the callback has returned.       *)

\* A game whose first state pauses for two seconds between two messages
PaceScript ==
    << ChoiceSection(<<"1">>,
         << Span(None, << TextPart(<<"H", "i", " ">>),
                          MbTag(<<"2">>),
                          TextPart(<<"G", "o">>) >>) >>,
         << ReplyLine(None, <<"o", "n">>, <<"2">>),
            ReplyLine(None, <<"e", "n", "d">>, <<"3">>) >>),
       ChoiceSection(<<"2">>,
         << Span(None, << TextPart(<<"M", "i", "d">>),
                          MbTag(None),
                          TextPart(<<"E", "n", "d">>) >>) >>,
         << ReplyLine(None, <<"b", "a", "c", "k">>, <<"1">>),
            ReplyLine(None, <<"e", "n", "d">>, <<"3">>) >>),
       VictorySection(<<"3">>, << Span(None, << TextPart(<<"W", "o", "n">>) >>) >>) >>

PaceTexts == { START, <<"h", "i">>, <<"1">>, <<"2">> }

\* Every way the callback selected for update can end
Outcomes(u, update) ==
    LET callback == SelectHandler(game_states, conv[u], update)
        lock == LockAfterLookup(game_states, conv[u], update, lock_dests)
    IN  CASE callback = "prompt_name" -> prompt_name(user_data[u])
          [] callback = "save_name" -> save_name(game_states, user_data[u], update.text)
          [] callback = "process_choice" -> process_choice(game_states, user_data[u], update)
          [] callback = "input_correct" -> input_correct(game_states, user_data[u], lock)
          [] callback = "input_wrong" -> input_wrong(game_states, user_data[u], lock)
          [] callback = "input_random" -> input_random(game_states, user_data[u])
          [] OTHER -> {Outcome(user_data[u], <<>>, "none", conv[u])}

\* The places, in what a callback sends, where time.sleep(wait) holds the
\* thread: time.sleep(0) returns at once
Pauses(sent) == {i \in DOMAIN sent : sent[i].kind = "sleep" /\ sent[i].wait > 0}

FirstOf(indices) == CHOOSE i \in indices : \A j \in indices : i <= j

\* The callback has returned (or raised): its effects are complete
Returned(u, res) ==
    /\ user_data' = [user_data EXCEPT ![u] = res.ud]
    /\ conv' = [conv EXCEPT ![u] = IF res.err = "none" THEN res.ret ELSE @]
    /\ out' = res.out
    /\ asleep' = None

\* The callback is inside time.sleep at place `at` of what it sends
Sleeping(u, res, at) ==
    /\ out' = SubSeq(res.out, 1, at)
    /\ asleep' = [user |-> u, res |-> res, at |-> at]
    /\ UNCHANGED <<user_data, conv>>

\* The dispatcher thread takes an update from the queue and runs the
\* selected callback until it returns or enters time.sleep
Deliver(u, update) ==
    /\ load_err = "none"
    /\ asleep = None
    /\ \E res \in Outcomes(u, update) :
          /\ InBounds(res.ud)
          /\ IF Pauses(res.out) = {}
             THEN Returned(u, res)
             ELSE Sleeping(u, res, FirstOf(Pauses(res.out)))
          /\ last' = [user |-> u, kind |-> update.kind, text |-> update.text,
                      handler |-> SelectHandler(game_states, conv[u], update),
                      err |-> res.err, had |-> user_data[u] # EmptyDict]
    /\ lock_dests' = LockAfterLookup(game_states, conv[u], update, lock_dests)
    /\ UNCHANGED <<script, load_err, game_states, probe>>

\* time.sleep returns: the callback goes on to its next sleep or to its end
WakeUp ==
    /\ asleep # None
    /\ LET later == {i \in Pauses(asleep.res.out) : i > asleep.at}
       IN  IF later = {}
           THEN Returned(asleep.user, asleep.res)
           ELSE Sleeping(asleep.user, asleep.res, FirstOf(later))
    /\ UNCHANGED <<script, load_err, game_states, lock_dests, last, probe>>

InitPace == InitWith({PaceScript})

NextPace ==
    \/ \E u \in Users, text \in PaceTexts : Deliver(u, Message(text))
    \/ \E u \in Users, data \in ButtonData(game_states) : Deliver(u, Callback(data))
    \/ WakeUp

SpecPace == InitPace /\ [][NextPace]_vars

-----------------------------------------------------------------------------
(* C12: while one user's presentation is paused in the delay of a Break,   *)
(* an update of any other user can be handled to its end before the delay  *)
(* is over.                                                                *)
C12_PauseLeavesOthersServed ==
    asleep # None =>
        \A v \in Users \ {asleep.user} :
            ENABLED (\E text \in PaceTexts : Deliver(v, Message(text)))

-----------------------------------------------------------------------------
(* C13: in every reachable state of a live session, after any sequence of  *)
(* choices, lock inputs and invalid inputs, the current state is the last  *)
(* entry of visited_states.                                                *)
C13_CurrentStateIsLastVisited ==
    \A u \in Users :
        Live(u) =>
            user_data[u].current_state =
                user_data[u].visited_states[Len(user_data[u].visited_states)]

-----------------------------------------------------------------------------
(* A game for the components of a presentation: tags removed, money      *)
(* gained, breaks.                                                         *)

\* State 1 gains money from a range; state 2 is a lock; state 3 removes
\* torch, which nothing adds; state 4 gains a fixed amount; state 5 begins
\* with a break
EffectScript ==
    << ChoiceSection(<<"1">>,
         << Span(None, << TextPart(<<"H", "i", " ">>), MoneyTag(<<"u", "p", " ", "2">>) >>) >>,
         << ReplyLine(None, <<"d", "o", "o", "r">>, <<"2">>),
            ReplyLine(None, <<"p", "i", "t">>, <<"3">>),
            ReplyLine(None, <<"c", "o", "i", "n">>, <<"4">>),
            ReplyLine(None, <<"h", "u", "s", "h">>, <<"5">>) >>),
       ChoiceSection(<<"2">>,
         << Span(None, << TextPart(<<"D", "o", "o", "r">>), InputTag(CODE, <<"6">>, <<"7">>) >>) >>,
         << ReplyLine(None, <<"b", "a", "c", "k">>, <<"1">>) >>),
       ChoiceSection(<<"3">>,
         << Span(None, << TextPart(<<"P", "i", "t", " ">>), ModTag(Neg(TORCH)), TextPart(<<"d", "e", "e", "p">>) >>) >>,
         << ReplyLine(None, <<"b", "a", "c", "k">>, <<"1">>) >>),
       ChoiceSection(<<"4">>,
         << Span(None, << TextPart(<<"C", "o", "i", "n">>), MoneyTag(<<"5">>) >>) >>,
         << ReplyLine(None, <<"b", "a", "c", "k">>, <<"1">>) >>),
       ChoiceSection(<<"5">>,
         << Span(None, << MbTag(None), TextPart(<<"H", "u", "s", "h">>) >>) >>,
         << ReplyLine(None, <<"b", "a", "c", "k">>, <<"1">>) >>),
       VictorySection(<<"6">>, << Span(None, << TextPart(<<"W", "o", "n">>) >>) >>),
       LethalSection(<<"7">>, << Span(None, << TextPart(<<"D", "e", "a", "d">>) >>) >>) >>

InitEffects == InitWith({EffectScript})

SpecEffects == InitEffects /\ [][Next]_vars

\* The step is an in-range selection of u in a non-lock state
ChoiceStep(u) ==
    /\ Playing(u)
    /\ ~IsLock(conv[u])
    /\ SelectionStep(u)
    /\ ToInt(last'.text) \in 1..Len(user_data[u].filtered)

\* The state that selection leads to, and the session as it enters it
ChosenDest(u) == user_data[u].filtered[ToInt(last'.text)].dest_state

Entered(u) ==
    Put(Put(user_data[u], "current_state", ChosenDest(u)),
        "visited_states", Append(user_data[u].visited_states, ChosenDest(u)))

\* The components of a state that sit in blocks without a condition
Unconditional(state) ==
    UNION {Range(state.message_blocks[b].content) :
              b \in {n \in DOMAIN state.message_blocks :
                        state.message_blocks[n].condition = None}}

AllComponents(state) ==
    UNION {Range(state.message_blocks[b].content) : b \in DOMAIN state.message_blocks}

IsRemoval(component) ==
    /\ component.type = "modifier"
    /\ StartsWith(component.content, NOT)
    /\ Len(Split(component.content)) >= 2

IsAddition(component) ==
    component.type = "modifier" /\ ~StartsWith(component.content, NOT)

RemovedTag(component) == Split(component.content)[2]

-----------------------------------------------------------------------------
(* C14: a ModifierChange that removes a tag not in modifiers is a no-op:   *)
(* the presentation goes on with the following components and ends as if   *)
(* the component were absent, modifiers unchanged.  (That one adding a tag  *)
(* already present leaves modifiers unchanged is the meaning of a set.)     *)

\* The tags state removes without a condition that ud does not hold and
\* state does not add
AbsentRemovals(state, ud) ==
    {RemovedTag(c) : c \in {x \in Unconditional(state) : IsRemoval(x)}}
        \ (ud.modifiers \cup {c.content : c \in {x \in AllComponents(state) : IsAddition(x)}})

RECURSIVE DropRemovals(_, _)
DropRemovals(content, tags) ==
    IF Len(content) = 0 THEN <<>>
    ELSE IF IsRemoval(Head(content)) /\ RemovedTag(Head(content)) \in tags
         THEN DropRemovals(Tail(content), tags)
         ELSE <<Head(content)>> \o DropRemovals(Tail(content), tags)

\* state as if the components removing tags were absent
WithoutRemovals(state, tags) ==
    [state EXCEPT !.message_blocks =
        [b \in DOMAIN state.message_blocks |->
            [condition |-> state.message_blocks[b].condition,
             content |-> DropRemovals(state.message_blocks[b].content, tags)]]]

C14_RemovingAbsentTagIsNoOp ==
    [][\A u \in Users :
         (ChoiceStep(u) /\ AbsentRemovals(game_states[ChosenDest(u)], Entered(u)) # {})
         => LET dest == ChosenDest(u)
                absent == AbsentRemovals(game_states[dest], Entered(u))
            IN  /\ last'.err = "none"
                /\ conv'[u] = dest
                /\ \E ps \in present(WithoutRemovals(game_states[dest], absent),
                                     Entered(u), <<>>) :
                      user_data'[u] = ps.ud /\ out' = ps.out]_vars

-----------------------------------------------------------------------------
(* C15: for a MoneyGain as the parser produces it from <money SPEC/>: when *)
(* SPEC is a fixed integer k, money grows by exactly k and last_earn is k;  *)
(* when SPEC is a range up to N, some a in 1..N is added and last_earn is   *)
(* a.  Money is never negative and never decreases during a session.        *)

\* The SPECs of the gains a state makes without a condition
Gains(state) == {c.content : c \in {x \in Unconditional(state) : x.type = "money"}}

IsFixedGain(gain) == IsDigit(gain)

IsRangeGain(gain) == Len(Split(gain)) = 2 /\ IsDigit(Split(gain)[2])

C15_MoneyGainAddsItsAmount ==
    [][\A u \in Users :
         /\ ( /\ ChoiceStep(u)
              /\ ~IsTerminal(ChosenDest(u))
              /\ Cardinality(Gains(game_states[ChosenDest(u)])) = 1 )
            => \A gain \in Gains(game_states[ChosenDest(u)]) :
                  /\ IsFixedGain(gain) =>
                        /\ last'.err = "none"
                        /\ user_data'[u].money = user_data[u].money + ToInt(gain)
                        /\ user_data'[u].last_earn = <<ToInt(gain)>>
                  /\ IsRangeGain(gain) =>
                        /\ last'.err = "none"
                        /\ \E a \in 1..ToInt(Split(gain)[2]) :
                              /\ user_data'[u].money = user_data[u].money + a
                              /\ user_data'[u].last_earn = <<a>>
         /\ Has(user_data'[u], "money") => user_data'[u].money >= 0
         /\ ( /\ Has(user_data[u], "money")
              /\ Has(user_data'[u], "money")
              /\ ~(last'.user = u /\ last'.handler = "save_name") )
            => user_data'[u].money >= user_data[u].money]_vars

-----------------------------------------------------------------------------
(* C16: no text message emitted during a presentation is empty or only     *)
(* whitespace: a Break on an empty or blank buffer emits nothing, and the   *)
(* final flush emits only a buffer that is neither.                         *)
C16_NoEmptyMessage ==
    \A i \in DOMAIN out :
        out[i].kind = "text" => (Len(out[i].body) > 0 /\ ~IsSpace(out[i].body))

-----------------------------------------------------------------------------
(* C17: a selection typed as a number and the same selection sent by a     *)
(* button are the same choose(selection): in every session state, lock or   *)
(* not, and for every selection value, in range or not, both are handled    *)
(* by the same callback and end in the same session, the same conversation  *)
(* state and the same emitted messages.                                     *)

\* The selection values compared: 0, and 1..3, of which some are beyond
\* the menu of each state
Selections == { <<"0">>, <<"1">>, <<"2">>, <<"3">> }

C17_TypedAndButtonAgree ==
    \A u \in Users, k \in Selections :
        Playing(u) =>
            /\ SelectHandler(game_states, conv[u], Message(k))
                  = SelectHandler(game_states, conv[u], Callback(k))
            /\ Outcomes(u, Message(k)) = Outcomes(u, Callback(k))

-----------------------------------------------------------------------------
(* C18: in every reachable state of a live session visited_states is not   *)
(* empty and begins with 1, and every operation leaves it as it was or      *)
(* appends exactly one id at its end; only the terminal clear and a new     *)
(* name intake remove or reorder entries.                                   *)
C18_VisitedStatesAppendOnly ==
    [][\A u \in Users :
         /\ Has(user_data'[u], "visited_states") =>
               /\ Len(user_data'[u].visited_states) >= 1
               /\ user_data'[u].visited_states[1] = 1
         /\ ( /\ Has(user_data[u], "visited_states")
              /\ user_data'[u] # EmptyDict
              /\ ~(last'.user = u /\ last'.handler = "save_name") )
            => /\ Has(user_data'[u], "visited_states")
               /\ \/ user_data'[u].visited_states = user_data[u].visited_states
                  \/ \E id \in DOMAIN game_states :
                        user_data'[u].visited_states
                           = Append(user_data[u].visited_states, id)]_vars

\* The lock of state 2 was opened, which left visited_states at [1, 2],
\* and a reply of state 3 then appended 3
C18_Witness ==
    /\ Live("u1")
    /\ last.handler = "process_choice"
    /\ last.err = "none"
    /\ user_data["u1"].visited_states = <<1, 2, 3>>
    /\ user_data["u1"].current_state = 3

-----------------------------------------------------------------------------
(* A game for the order of the effects within one presentation             *)

LAMP == <<"l", "a", "m", "p">>

\* State 1 adds lamp and then has blocks conditioned on it; state 2, a
\* lock, adds key; state 3 removes key when it is there, has a block
\* conditioned on key after that, and gains up to 15
OrderScript ==
    << ChoiceSection(<<"1">>,
         << Span(None, << TextPart(<<"H", "i", " ">>), ModTag(LAMP) >>),
            Span(LAMP, << TextPart(<<"l", "i", "t", " ">>) >>),
            Span(Neg(LAMP), << TextPart(<<"d", "a", "r", "k">>) >>) >>,
         << ReplyLine(LAMP, <<"g", "l", "o", "w">>, <<"2">>),
            ReplyLine(Neg(LAMP), <<"d", "i", "m">>, <<"5">>) >>),
       ChoiceSection(<<"2">>,
         << Span(None, << TextPart(<<"D", "o", "o", "r">>), ModTag(KEY),
                          InputTag(CODE, <<"4">>, <<"5">>) >>) >>,
         << ReplyLine(None, <<"o", "n">>, <<"3">>) >>),
       ChoiceSection(<<"3">>,
         << Span(KEY, << ModTag(Neg(KEY)), TextPart(<<"u", "s", "e", "d", " ">>) >>),
            Span(KEY, << TextPart(<<"h", "e", "l", "d", " ">>) >>),
            Span(None, << TextPart(<<"R", "o", "o", "m">>), MoneyTag(<<"u", "p", " ", "1", "5">>) >>) >>,
         << ReplyLine(KEY, <<"o", "p", "e", "n">>, <<"4">>),
            ReplyLine(MONEY, <<"s", "h", "o", "p">>, <<"4">>),
            ReplyLine(None, <<"o", "u", "t">>, <<"5">>) >>),
       VictorySection(<<"4">>, << Span(None, << TextPart(<<"W", "o", "n">>) >>) >>),
       LethalSection(<<"5">>, << Span(None, << TextPart(<<"D", "e", "a", "d">>) >>) >>) >>

InitOrder == InitWith({OrderScript})

SpecOrder == InitOrder /\ [][Next]_vars

-----------------------------------------------------------------------------
(* C19: within one presentation the side effects are applied in document   *)
(* order and are seen by everything evaluated later in it: a block's        *)
(* condition is evaluated when the block is reached, so it sees the tags    *)
(* earlier blocks added or removed; the replies are filtered after all      *)
(* blocks, so a reply conditioned on a tag added in this state (the derived *)
(* "money" tag of a gain that reaches 15 included) is offered in this       *)
(* presentation, and one conditioned on a tag removed in it is not.         *)

BlocksOf(s) == game_states[s].message_blocks

AdditionsIn(content) == {c.content : c \in {x \in Range(content) : IsAddition(x)}}

RemovalsIn(content) == {RemovedTag(c) : c \in {x \in Range(content) : IsRemoval(x)}}

\* The tags state s has surely added when its block b is reached: added by
\* an earlier block without a condition, and removed nowhere in s
SurelyPresent(s, b) ==
    UNION {AdditionsIn(BlocksOf(s)[a].content) :
              a \in {n \in 1..(b - 1) : BlocksOf(s)[n].condition = None}}
        \ UNION {RemovalsIn(BlocksOf(s)[a].content) : a \in DOMAIN BlocksOf(s)}

\* The tags state s has surely removed when its block b is reached: removed
\* by an earlier block that runs whenever the tag is there, and added
\* nowhere in s
SurelyAbsent(s, b) ==
    UNION {RemovalsIn(BlocksOf(s)[a].content) \cap {BlocksOf(s)[a].condition} :
              a \in 1..(b - 1)}
        \ UNION {AdditionsIn(BlocksOf(s)[a].content) : a \in DOMAIN BlocksOf(s)}

\* All the text sent, in the order sent
RECURSIVE Emitted(_)
Emitted(sent) ==
    IF Len(sent) = 0 THEN <<>>
    ELSE (IF Head(sent).kind = "text" THEN Head(sent).body ELSE <<>>) \o Emitted(Tail(sent))

\* The text of block b of state s is among / is not among what was sent
BlockShown(s, b) ==
    \A c \in Range(BlocksOf(s)[b].content) :
        c.type = "message" => Contains(Emitted(out), c.content)

BlockHidden(s, b) ==
    \A c \in Range(BlocksOf(s)[b].content) :
        c.type = "message" => ~Contains(Emitted(out), c.content)

EffectsInDocumentOrder(u) ==
    LET s == user_data[u].current_state
        end == Len(BlocksOf(s)) + 1
        offered == Range(user_data[u].filtered)
    IN  /\ \A b \in DOMAIN BlocksOf(s) :
              LET cond == BlocksOf(s)[b].condition
              IN  /\ cond \in SurelyPresent(s, b) => BlockShown(s, b)
                  /\ cond \in SurelyAbsent(s, b) => BlockHidden(s, b)
                  /\ \A t \in SurelyPresent(s, b) : cond = Neg(t) => BlockHidden(s, b)
                  /\ \A t \in SurelyAbsent(s, b) : cond = Neg(t) => BlockShown(s, b)
        /\ \A r \in Range(game_states[s].replies) :
              /\ r.condition \in SurelyPresent(s, end) => r \in offered
              /\ r.condition \in SurelyAbsent(s, end) => r \notin offered
              /\ \A t \in SurelyPresent(s, end) : r.condition = Neg(t) => r \notin offered
              /\ (r.condition = MONEY /\ user_data[u].money >= MONEY_THRESHOLD)
                    => r \in offered

C19_EffectsSeenLaterInSamePresentation ==
    \A u \in Users : (JustPresented(u) /\ Live(u)) => EffectsInDocumentOrder(u)

\* State 3 presented to a session that held key: key was removed (its
\* block's text was sent), the block after it that asks for key was left
\* out, open is not offered; and the gain of this presentation brought
\* money from 0 to 15, so shop is offered
C19_Witness ==
    /\ JustPresented("u1")
    /\ Live("u1")
    /\ user_data["u1"].current_state = 3
    /\ Contains(Emitted(out), <<"u", "s", "e", "d", " ">>)
    /\ ~Contains(Emitted(out), <<"h", "e", "l", "d", " ">>)
    /\ KEY \notin user_data["u1"].modifiers
    /\ LAMP \in user_data["u1"].modifiers
    /\ user_data["u1"].money = 15
    /\ user_data["u1"].last_earn = <<15>>
    /\ Len(user_data["u1"].filtered) = 2
    /\ user_data["u1"].filtered[1].text = <<"s", "h", "o", "p">>

-----------------------------------------------------------------------------
(* Calls of Parser.parse on one Parser object: the field state_input       *)
(* lives as long as the object, and a call that raises leaves it as it     *)
(* was when the exception was raised.                                      *)

\* The sections the parsed scripts are made of: without a lock, with a
\* lock, with a lock inside an <if>, a terminal one, one whose <input/> is
\* followed by a <mod/> parse_mod does not match, one whose <input/>
\* parse_input does not match, one with a <mod/> and a <mb/>, and a
\* terminal one whose <input/> is followed by a <money/> parse_money does
\* not match
ParsePool ==
    { ChoiceSection(<<"1">>,
        << Span(None, << TextPart(<<"G", "o">>) >>) >>,
        << ReplyLine(None, <<"o", "n">>, <<"2">>) >>),
      ChoiceSection(<<"2">>,
        << Span(None, << TextPart(<<"D", "o", "o", "r">>), InputTag(CODE, <<"3">>, <<"4">>) >>) >>,
        << ReplyLine(None, <<"b", "a", "c", "k">>, <<"1">>) >>),
      ChoiceSection(<<"3">>,
        << Span(None, << TextPart(<<"S", "a", "f", "e">>) >>),
           Span(KEY, << InputTag(CODE, <<"5">>, <<"6">>), TextPart(<<"d", "i", "a", "l">>) >>) >>,
        << ReplyLine(None, <<"b", "a", "c", "k">>, <<"1">>) >>),
      VictorySection(<<"4">>, << Span(None, << TextPart(<<"W", "o", "n">>) >>) >>),
      ChoiceSection(<<"5">>,
        << Span(None, << InputTag(CODE, <<"3">>, <<"4">>), ModTag(<<>>) >>) >>,
        << ReplyLine(None, <<"b", "a", "c", "k">>, <<"1">>) >>),
      ChoiceSection(<<"6">>,
        << Span(None, << TextPart(<<"G", "a", "t", "e">>), InputTag(<<>>, <<"3">>, <<"4">>) >>) >>,
        << ReplyLine(None, <<"b", "a", "c", "k">>, <<"1">>) >>),
      ChoiceSection(<<"7">>,
        << Span(None, << ModTag(KEY), TextPart(<<"K", "e", "y">>), MbTag(<<"1">>) >>) >>,
        << ReplyLine(None, <<"b", "a", "c", "k">>, <<"1">>) >>),
      LethalSection(<<"8">>,
        << Span(None, << TextPart(<<"D", "e", "a", "d">>),
                         InputTag(CODE, <<"5">>, <<"6">>), MoneyTag(<<>>) >>) >>) }

\* The number of sections of a parsed script
MaxSections == 2

ParseScripts == UNION {[1..n -> ParsePool] : n \in 1..MaxSections}

\* Parser(): state_input is None, nothing parsed yet
InitParse ==
    /\ script = <<>>
    /\ probe = [state_input |-> None, states |-> <<>>, err |-> "none"]
    /\ load_err = "none"
    /\ game_states = <<>>
    /\ lock_dests = None
    /\ conv = [u \in Users |-> NoConversation]
    /\ user_data = [u \in Users |-> EmptyDict]
    /\ last = NoUpdate
    /\ out = <<>>
    /\ asleep = None

\* One more call of parse on the same Parser object
ParseCall(sections) ==
    /\ script' = sections
    /\ probe' = LET r == parse(sections, probe.state_input)
                IN  [state_input |-> r.state_input, states |-> r.states, err |-> r.err]
    /\ UNCHANGED <<load_err, game_states, lock_dests, conv, user_data, last, out, asleep>>

NextParse == \E sections \in ParseScripts : ParseCall(sections)

SpecParse == InitParse /\ [][NextParse]_vars

-----------------------------------------------------------------------------
(* C20: for every script and every sequence of parse calls on one parser,  *)
(* a parsed state has a lock exactly when its own message body holds an     *)
(* <input .../> tag, and the lock is the (correct, wrong) pair of that tag; *)
(* the tag gives no rendered component; a lock seen in one state is never   *)
(* found on a following state or in a later parse call.                     *)

\* The parts of the body of a section, span after span
RECURSIVE BodyParts(_)
BodyParts(body) ==
    IF Len(body) = 0 THEN <<>> ELSE Head(body).parts \o BodyParts(Tail(body))

\* The (correct, wrong) pair of the input tag of a section's own body, or
\* None when the body has none
OwnLock(section) ==
    LET parts == BodyParts(section.body)
        tags == {i \in DOMAIN parts : parts[i].tag = "input"}
    IN  IF tags = {} THEN None
        ELSE LET tag == parts[CHOOSE i \in tags : \A j \in tags : j <= i]
             IN  <<ToInt(tag.b), ToInt(tag.c)>>

\* The number of parts of a section that are rendered: all but the input
\* tags and the blank texts
RenderedParts(section) ==
    Cardinality({i \in DOMAIN BodyParts(section.body) :
                    LET part == BodyParts(section.body)[i]
                    IN  /\ ~(part.tag = "input")
                        /\ part.tag = "text" => (Len(part.a) > 0 /\ ~IsSpace(part.a))})

RECURSIVE CountComponents(_)
CountComponents(blocks) ==
    IF Len(blocks) = 0 THEN 0
    ELSE Len(Head(blocks).content) + CountComponents(Tail(blocks))

C20_LockOnlyFromOwnInputTag ==
    probe.err = "none" =>
        \A i \in DOMAIN probe.states :
            /\ probe.states[i].allow_input = OwnLock(script[i])
            /\ CountComponents(probe.states[i].message_blocks) = RenderedParts(script[i])
            /\ \A b \in DOMAIN probe.states[i].message_blocks :
                  \A c \in Range(probe.states[i].message_blocks[b].content) :
                      c.type \in {"message", "mbreak", "modifier", "money"}

====
